---- MODULE Spec2Model ----
(***************************************************************************)
(* Examples/IPlugEffect/scripts/prepare_resources-ios.py                   *)
(*                                                                         *)
(* The script reads the build configuration, reads two Info.plist files,   *)
(* overwrites a fixed set of their fields and writes them back.  The model *)
(* follows main() statement group by statement group; pc is the line the   *)
(* interpreter is at.  Python values are tagged records [kind, val] so     *)
(* that the kind of every value put into a plist is part of the state.     *)
(* The plist codec (plistlib) and the configuration parsers (parse_config, *)
(* parse_xcconfig) are imported collaborators: a file on disk is modelled  *)
(* by the mapping the codec yields for it, a parsed configuration by the   *)
(* dictionary the parser returns.                                          *)
(***************************************************************************)
EXTENDS Integers, Sequences, FiniteSets, TLC

VARIABLES
  cfgEnv,     \* what parse_config(projectpath) returns for this project
  xcEnv,      \* what parse_xcconfig(common-ios.xcconfig) returns
  fs,         \* the resources directory: path -> plist root
  orig,       \* the plist templates as checked out (fs of the initial state)
  fs0,        \* fs when the current run was invoked
  pc,         \* position of the interpreter in main()
  locals,     \* local variables of main()
  runs,       \* number of invocations so far
  written,    \* paths the current run has passed to writePlist
  firstDone   \* fs and xcconfig at the end of the first successful run

vars == <<cfgEnv, xcEnv, fs, orig, fs0, pc, locals, runs, written, firstDone>>

MaxRuns == 2

---------------------------------------------------------------------------
(* Python values *)

Str(s)  == [kind |-> "string", val |-> s]
Bool(b) == [kind |-> "bool", val |-> b]
Num(n)  == [kind |-> "int", val |-> n]
Dict(d) == [kind |-> "dict", val |-> d]
List(l) == [kind |-> "list", val |-> l]

EmptyMap == [k \in {} |-> Str("")]
Unbound  == [kind |-> "unbound", val |-> ""]
NoneV    == [kind |-> "none", val |-> ""]
KeyError == [kind |-> "KeyError", val |-> ""]
IOError  == [kind |-> "IOError", val |-> ""]

IsError(v) == v.kind \in {"KeyError", "IOError"}
AnyError(S) == \E v \in S : IsError(v)

\* truth value of an object in an if statement
Truthy(v) ==
  CASE v.kind = "bool"   -> v.val
    [] v.kind = "int"    -> v.val # 0
    [] v.kind = "string" -> v.val # ""
    [] v.kind = "list"   -> v.val # <<>>
    [] v.kind = "dict"   -> DOMAIN v.val # {}
    [] OTHER             -> FALSE

\* config.get(k, "")
GetOrEmpty(d, k) == IF k \in DOMAIN d.val THEN d.val[k] ELSE Str("")

\* config.get(k)
GetOrNone(d, k) == IF k \in DOMAIN d.val THEN d.val[k] ELSE NoneV

\* d[k]
Get(d, k) == IF k \in DOMAIN d.val THEN d.val[k] ELSE KeyError

\* d[k] = v
SetItem(d, k, v) == Dict((k :> v) @@ d.val)

---------------------------------------------------------------------------
(* Constants of the script *)

kAudioUnitType_MusicDevice == "aumu"
kAudioUnitType_MusicEffect == "aumf"
kAudioUnitType_Effect      == "aufx"
NSEXTENSIONPOINTIDENTIFIER == "com.apple.AudioUnit-UI"

Auv3Path(name) == "/resources/" \o name \o "-iOS-AUv3-Info.plist"
AppPath(name)  == "/resources/" \o name \o "-iOS-Info.plist"

---------------------------------------------------------------------------
(* Inputs *)

ConfigKeys ==
  {"BUNDLE_NAME", "FULL_VER_STR", "PLUG_COPYRIGHT", "PLUG_IS_INSTRUMENT",
   "PLUG_DOES_MIDI", "BUNDLE_DOMAIN", "BUNDLE_MFR", "PLUG_NAME",
   "PLUG_MFR_UID", "PLUG_MFR", "PLUG_UID", "PLUG_VER_INT"}

Names      == {"Foo", "IPlugEffect"}
Versions   == {"1.2.3", "2.0.0"}
FlagValues == {Bool(TRUE), Bool(FALSE), Num(0), Num(1)}

FullConfig(name, ver, inst, midi) ==
  [k \in ConfigKeys |->
     CASE k = "BUNDLE_NAME"        -> Str(name)
       [] k = "FULL_VER_STR"       -> Str(ver)
       [] k = "PLUG_COPYRIGHT"     -> Str("(c)2020")
       [] k = "PLUG_IS_INSTRUMENT" -> inst
       [] k = "PLUG_DOES_MIDI"     -> midi
       [] k = "BUNDLE_DOMAIN"      -> Str("com")
       [] k = "BUNDLE_MFR"         -> Str("AcmeInc")
       [] k = "PLUG_NAME"          -> Str("IPlugEffect")
       [] k = "PLUG_MFR_UID"       -> Str("Acme")
       [] k = "PLUG_MFR"           -> Str("AcmeInc")
       [] k = "PLUG_UID"           -> Str("Ipef")
       [] OTHER                    -> Num(65536)]

Restrict(f, S) == [k \in S |-> f[k]]

\* the keys missing from config.h: none, any single one, or both flags
MissingChoices ==
  {{}} \cup {{k} : k \in ConfigKeys}
       \cup {{"PLUG_IS_INSTRUMENT", "PLUG_DOES_MIDI"}}

Configs ==
  {Restrict(FullConfig(n, v, i, m), ConfigKeys \ miss) :
     n \in Names, v \in Versions, i \in FlagValues, m \in FlagValues,
     miss \in MissingChoices}

XcConfigs ==
  {EmptyMap} \cup {("DEPLOYMENT_TARGET" :> Str(t)) : t \in {"9.0", "11.0"}}

\* A bare template and one carrying stale values, an info string, two
\* audio components and extra keys under NSExtension.
Auv3Bare ==
  Dict(("CFBundleDevelopmentRegion" :> Str("en"))
    @@ ("CFBundleInfoDictionaryVersion" :> Str("6.0")))

StaleComponent(n) ==
  Dict(("name" :> Str(n)) @@ ("type" :> Str("aufx"))
    @@ ("tags" :> List(<<Str("Old")>>)) @@ ("legacy" :> Bool(TRUE)))

StaleAttributes ==
  Dict(("AudioComponents" :> List(<<StaleComponent("a"), StaleComponent("b")>>))
    @@ ("Extra" :> Num(1)))

StaleExtension ==
  Dict(("NSExtensionPrincipalClass" :> Str("OldViewController"))
    @@ ("NSExtensionAttributes" :> StaleAttributes))

Auv3Stale ==
  Dict(("CFBundleDevelopmentRegion" :> Str("en"))
    @@ ("CFBundleGetInfoString" :> Str("Old v0.0.1 (c)1999"))
    @@ ("CFBundleIdentifier" :> Str("org.old.app.Old.AUv3"))
    @@ ("CFBundleVersion" :> Str("0.0.1"))
    @@ ("CFBundleShortVersionString" :> Str("0.0"))
    @@ ("CFBundlePackageType" :> Str("BNDL"))
    @@ ("LSMinimumSystemVersion" :> Str("8.0"))
    @@ ("NSExtension" :> StaleExtension))

AppBare ==
  Dict(("CFBundleDevelopmentRegion" :> Str("en"))
    @@ ("UIRequiredDeviceCapabilities" :> List(<<Str("armv7")>>)))

AppStale ==
  Dict(("CFBundleDevelopmentRegion" :> Str("en"))
    @@ ("CFBundleIdentifier" :> Str("org.old.app.Old"))
    @@ ("CFBundleVersion" :> Str("0.0.1"))
    @@ ("CFBundleShortVersionString" :> Str("0.0"))
    @@ ("LSRequiresIPhoneOS" :> Bool(TRUE))
    @@ ("LSMinimumSystemVersion" :> Str("8.0")))

NoFile == [kind |-> "nofile", val |-> ""]

Auv3Templates == {NoFile, Auv3Bare, Auv3Stale}
AppTemplates  == {NoFile, AppBare, AppStale}

\* the resources directory holding the given templates for every bundle name
Resources(a, b) ==
  [p \in (IF a.kind = "dict" THEN {Auv3Path(n) : n \in Names} ELSE {})
         \cup (IF b.kind = "dict" THEN {AppPath(n) : n \in Names} ELSE {})
     |-> IF p \in {Auv3Path(n) : n \in Names} THEN a ELSE b]

---------------------------------------------------------------------------
(* Expressions and statement groups of main() *)

\* a + b on strings; an exception raised by an operand propagates
Add(a, b) ==
  IF IsError(a) THEN a ELSE IF IsError(b) THEN b ELSE Str(a.val \o b.val)

\* the statement d[k] = v, skipped when an earlier statement has raised
Assign(d, k, v) ==
  IF IsError(d) THEN d ELSE IF IsError(v) THEN v ELSE SetItem(d, k, v)

NoLocals ==
  [config |-> Unbound, xcconfig |-> Unbound,
   CFBundleGetInfoString |-> Unbound, CFBundleVersion |-> Unbound,
   CFBundlePackageType |-> Unbound, CSResourcesFileMapped |-> Unbound,
   LSMinimumSystemVersion |-> Unbound, COMPONENT_TYPE |-> Unbound,
   plistpath |-> Unbound, auv3 |-> Unbound, iOSapp |-> Unbound]

NoSnapshot == [kind |-> "unbound", val |-> EmptyMap, xc |-> EmptyMap]

\* line 22
InfoString(config) ==
  Add(Add(Add(Add(Get(config, "BUNDLE_NAME"), Str(" v")),
              Get(config, "FULL_VER_STR")), Str(" ")),
      Get(config, "PLUG_COPYRIGHT"))

ComponentTypeNoElif(config) ==
  LET inst == Get(config, "PLUG_IS_INSTRUMENT")
  IN  IF IsError(inst) THEN inst
      ELSE IF Truthy(inst) THEN Str(kAudioUnitType_MusicDevice)
      ELSE LET midi == Get(config, "PLUG_DOES_MIDI")
           IN  IF IsError(midi) THEN midi ELSE Str(kAudioUnitType_Effect)

\* lines 32-37
ComponentType(config) ==
  LET inst == Get(config, "PLUG_IS_INSTRUMENT")
  IN  IF IsError(inst) THEN inst
      ELSE IF Truthy(inst) THEN Str(kAudioUnitType_MusicDevice)
      ELSE LET midi == Get(config, "PLUG_DOES_MIDI")
           IN  IF IsError(midi) THEN midi
               ELSE IF Truthy(midi) THEN Str(kAudioUnitType_MusicEffect)
               ELSE Str(kAudioUnitType_Effect)

\* lines 41 and 74
Auv3PlistPath(config) ==
  Add(Add(Str("/resources/"), Get(config, "BUNDLE_NAME")),
      Str("-iOS-AUv3-Info.plist"))

AppPlistPath(config) ==
  Add(Add(Str("/resources/"), Get(config, "BUNDLE_NAME")),
      Str("-iOS-Info.plist"))

\* plistlib.readPlist(path)
ReadPlist(files, path) ==
  IF IsError(path) THEN path
  ELSE IF path.val \in DOMAIN files THEN files[path.val] ELSE IOError

\* plistlib.writePlist(root, path)
WritePlist(files, root, path) == (path.val :> root) @@ files

Auv3IdentifierNoSuffix(config) ==
  Add(Add(Add(Add(Get(config, "BUNDLE_DOMAIN"), Str(".")),
              Get(config, "BUNDLE_MFR")), Str(".app.")),
      Get(config, "BUNDLE_NAME"))

\* line 44
Auv3Identifier(config) ==
  Add(Add(Add(Add(Add(Get(config, "BUNDLE_DOMAIN"), Str(".")),
                  Get(config, "BUNDLE_MFR")), Str(".app.")),
          Get(config, "BUNDLE_NAME")), Str(".AUv3"))

\* line 77
AppIdentifier(config) ==
  Add(Add(Add(Add(Get(config, "BUNDLE_DOMAIN"), Str(".")),
              Get(config, "BUNDLE_MFR")), Str(".app.")),
      Get(config, "BUNDLE_NAME"))

\* lines 43-49
PopulateBundle(l) ==
  LET exe == Add(Get(l.config, "BUNDLE_NAME"), Str("AppExtension"))
      a1  == Assign(l.auv3, "CFBundleExecutable", exe)
      a2  == Assign(a1, "CFBundleIdentifier", Auv3Identifier(l.config))
      a3  == Assign(a2, "CFBundleName", exe)
      a4  == Assign(a3, "CFBundleDisplayName", exe)
      a5  == Assign(a4, "CFBundleVersion", l.CFBundleVersion)
      a6  == Assign(a5, "CFBundleShortVersionString", l.CFBundleVersion)
  IN  Assign(a6, "CFBundlePackageType", Str("XPC!"))

\* lines 55-63: the entry AudioComponents[0], filled key by key
AudioComponent(l) ==
  LET c1 == Assign(Dict(EmptyMap), "description", Get(l.config, "PLUG_NAME"))
      c2 == Assign(c1, "manufacturer", Get(l.config, "PLUG_MFR_UID"))
      c3 == Assign(c2, "factoryFunction", Str("IPlugEffectViewController"))
      c4 == Assign(c3, "name",
                   Add(Add(Get(l.config, "PLUG_MFR"), Str(": ")),
                       Get(l.config, "PLUG_NAME")))
      c5 == Assign(c4, "subtype", Get(l.config, "PLUG_UID"))
      c6 == Assign(c5, "type", l.COMPONENT_TYPE)
      c7 == Assign(c6, "version", Get(l.config, "PLUG_VER_INT"))
      c8 == Assign(c7, "sandboxSafe", Bool(TRUE))
  IN  Assign(c8, "tags", List(<<Dict(EmptyMap)>>))

\* lines 50-53: the dict(...) assigned to auv3['NSExtension']
NSExtension(components) ==
  Dict(("NSExtensionAttributes" :>
          Dict(("AudioComponents" :> List(components))))
    @@ ("NSExtensionMainStoryboard" :> Str("IPlugEffect-iOS-MainInterface"))
    @@ ("NSExtensionPointIdentifier" :> Str(NSEXTENSIONPOINTIDENTIFIER)))

\* the components already in auv3, when it has any
OldComponents(auv3) ==
  IF "NSExtension" \in DOMAIN auv3.val
  THEN auv3.val["NSExtension"].val["NSExtensionAttributes"]
           .val["AudioComponents"].val
  ELSE <<>>

PopulateExtensionAppending(l) ==
  LET comp == AudioComponent(l)
  IN  IF IsError(comp) THEN comp
      ELSE SetItem(l.auv3, "NSExtension",
                   NSExtension(OldComponents(l.auv3) \o <<comp>>))

\* lines 50-63
PopulateExtension(l) ==
  LET comp == AudioComponent(l)
  IN  IF IsError(comp) THEN comp
      ELSE SetItem(l.auv3, "NSExtension", NSExtension(<<comp>>))

TagForByMidi(config) ==
  LET inst == Get(config, "PLUG_IS_INSTRUMENT")
  IN  IF IsError(inst) THEN inst
      ELSE IF Truthy(inst) \/ Truthy(GetOrEmpty(config, "PLUG_DOES_MIDI"))
           THEN Str("Synth") ELSE Str("Effects")

\* lines 65-68: the value stored in tags[0]
TagFor(config) ==
  LET inst == Get(config, "PLUG_IS_INSTRUMENT")
  IN  IF IsError(inst) THEN inst
      ELSE IF Truthy(inst) THEN Str("Synth") ELSE Str("Effects")

\* lines 65-68
PopulateTags(l) ==
  LET tag == TagFor(l.config)
  IN  IF IsError(tag) THEN tag
      ELSE [l.auv3 EXCEPT
              !.val["NSExtension"].val["NSExtensionAttributes"]
               .val["AudioComponents"].val[1].val["tags"].val[1] = tag]

PopulateAppNoShortVersion(l) ==
  LET a1 == Assign(l.iOSapp, "CFBundleExecutable", Get(l.config, "BUNDLE_NAME"))
      a2 == Assign(a1, "CFBundleIdentifier", AppIdentifier(l.config))
      a3 == Assign(a2, "CFBundleName", Get(l.config, "BUNDLE_NAME"))
      a4 == Assign(a3, "CFBundleVersion", l.CFBundleVersion)
      a6 == Assign(a4, "CFBundlePackageType", Str("APPL"))
  IN  Assign(a6, "LSApplicationCategoryType", Str("public.app-category.music"))

PopulateAppWithMinimumVersion(l) ==
  LET a1 == Assign(l.iOSapp, "CFBundleExecutable", Get(l.config, "BUNDLE_NAME"))
      a2 == Assign(a1, "CFBundleIdentifier", AppIdentifier(l.config))
      a3 == Assign(a2, "CFBundleName", Get(l.config, "BUNDLE_NAME"))
      a4 == Assign(a3, "CFBundleVersion", l.CFBundleVersion)
      a5 == Assign(a4, "CFBundleShortVersionString", l.CFBundleVersion)
      a6 == Assign(a5, "CFBundlePackageType", Str("APPL"))
      a7 == Assign(a6, "LSApplicationCategoryType",
                   Str("public.app-category.music"))
  IN  Assign(a7, "LSMinimumSystemVersion", l.LSMinimumSystemVersion)

\* lines 76-82
PopulateApp(l) ==
  LET a1 == Assign(l.iOSapp, "CFBundleExecutable", Get(l.config, "BUNDLE_NAME"))
      a2 == Assign(a1, "CFBundleIdentifier", AppIdentifier(l.config))
      a3 == Assign(a2, "CFBundleName", Get(l.config, "BUNDLE_NAME"))
      a4 == Assign(a3, "CFBundleVersion", l.CFBundleVersion)
      a5 == Assign(a4, "CFBundleShortVersionString", l.CFBundleVersion)
      a6 == Assign(a5, "CFBundlePackageType", Str("APPL"))
  IN  Assign(a6, "LSApplicationCategoryType", Str("public.app-category.music"))

---------------------------------------------------------------------------
(* The run *)

Init ==
  /\ cfgEnv \in Configs
  /\ xcEnv \in XcConfigs
  /\ \E a \in Auv3Templates, b \in AppTemplates : fs = Resources(a, b)
  /\ orig = fs
  /\ fs0 = fs
  /\ pc = "idle"
  /\ locals = NoLocals
  /\ runs = 0
  /\ written = {}
  /\ firstDone = NoSnapshot

\* an unhandled exception ends the process; its locals are gone
Raise ==
  /\ pc' = "faulted"
  /\ locals' = NoLocals
  /\ UNCHANGED <<cfgEnv, xcEnv, fs, orig, fs0, runs, written, firstDone>>

\* the statement group stored its results and control moves on
Goto(next, l) ==
  /\ pc' = next
  /\ locals' = l
  /\ UNCHANGED <<cfgEnv, xcEnv, fs, orig, fs0, runs, written, firstDone>>

\* lines 86-87: the script is run.  Before a later run the developer may
\* have edited the xcconfig and may have restored the checked-out templates.
Invoke ==
  /\ pc \in {"idle", "done", "faulted"}
  /\ runs < MaxRuns
  /\ \E x \in (IF runs = 0 THEN {xcEnv} ELSE XcConfigs),
        start \in (IF runs = 0 THEN {fs} ELSE {fs, orig}) :
        /\ xcEnv' = x
        /\ fs' = start
        /\ fs0' = start
  /\ pc' = "L19"
  /\ runs' = runs + 1
  /\ written' = {}
  /\ locals' = NoLocals
  /\ UNCHANGED <<cfgEnv, orig, firstDone>>

\* lines 19-20
LoadConfig ==
  /\ pc = "L19"
  /\ Goto("L22", [locals EXCEPT !.config = Dict(cfgEnv),
                                !.xcconfig = Dict(xcEnv)])

\* lines 22-26
DeriveStrings ==
  /\ pc = "L22"
  /\ LET info == InfoString(locals.config)
         ver  == Get(locals.config, "FULL_VER_STR")
         lsm  == Get(locals.xcconfig, "DEPLOYMENT_TARGET")
     IN  IF AnyError({info, ver, lsm}) THEN Raise
         ELSE Goto("L32", [locals EXCEPT
                 !.CFBundleGetInfoString = info,
                 !.CFBundleVersion = ver,
                 !.CFBundlePackageType = Str("BNDL"),
                 !.CSResourcesFileMapped = Bool(TRUE),
                 !.LSMinimumSystemVersion = lsm])

\* lines 32-39
ClassifyType ==
  /\ pc = "L32"
  /\ LET t == ComponentType(locals.config)
     IN  IF IsError(t) THEN Raise
         ELSE Goto("L41", [locals EXCEPT !.COMPONENT_TYPE = t])

\* lines 41-42
ReadAuv3 ==
  /\ pc = "L41"
  /\ LET path == Auv3PlistPath(locals.config)
         root == ReadPlist(fs, path)
     IN  IF IsError(root) THEN Raise
         ELSE Goto("L43", [locals EXCEPT !.plistpath = path, !.auv3 = root])

\* lines 43-49
SetAuv3Bundle ==
  /\ pc = "L43"
  /\ LET a == PopulateBundle(locals)
     IN  IF IsError(a) THEN Raise
         ELSE Goto("L50", [locals EXCEPT !.auv3 = a])

\* lines 50-63
SetAuv3Extension ==
  /\ pc = "L50"
  /\ LET a == PopulateExtension(locals)
     IN  IF IsError(a) THEN Raise
         ELSE Goto("L65", [locals EXCEPT !.auv3 = a])

\* lines 65-68
SetAuv3Tags ==
  /\ pc = "L65"
  /\ LET a == PopulateTags(locals)
     IN  IF IsError(a) THEN Raise
         ELSE Goto("L70", [locals EXCEPT !.auv3 = a])

\* line 70
WriteAuv3 ==
  /\ pc = "L70"
  /\ fs' = WritePlist(fs, locals.auv3, locals.plistpath)
  /\ written' = written \cup {locals.plistpath.val}
  /\ pc' = "L74"
  /\ UNCHANGED <<cfgEnv, xcEnv, orig, fs0, locals, runs, firstDone>>

\* lines 74-75
ReadApp ==
  /\ pc = "L74"
  /\ LET path == AppPlistPath(locals.config)
         root == ReadPlist(fs, path)
     IN  IF IsError(root) THEN Raise
         ELSE Goto("L76", [locals EXCEPT !.plistpath = path, !.iOSapp = root])

\* lines 76-82
SetAppFields ==
  /\ pc = "L76"
  /\ LET a == PopulateApp(locals)
     IN  IF IsError(a) THEN Raise
         ELSE Goto("L84", [locals EXCEPT !.iOSapp = a])

\* line 84, and the return from main()
WriteApp ==
  /\ pc = "L84"
  /\ fs' = WritePlist(fs, locals.iOSapp, locals.plistpath)
  /\ written' = written \cup {locals.plistpath.val}
  /\ pc' = "done"
  /\ locals' = NoLocals
  /\ firstDone' = IF firstDone.kind = "unbound"
                  THEN [kind |-> "snapshot", val |-> fs', xc |-> xcEnv]
                  ELSE firstDone
  /\ UNCHANGED <<cfgEnv, xcEnv, orig, fs0, runs>>

Next ==
  \/ Invoke
  \/ LoadConfig
  \/ DeriveStrings
  \/ ClassifyType
  \/ ReadAuv3
  \/ SetAuv3Bundle
  \/ SetAuv3Extension
  \/ SetAuv3Tags
  \/ WriteAuv3
  \/ ReadApp
  \/ SetAppFields
  \/ WriteApp

Spec == Init /\ [][Next]_vars

---------------------------------------------------------------------------
(* Properties *)

Done == pc = "done"

CfgStr(k) == cfgEnv[k].val

\* a flag of config.h that is present and set
FlagOn(k) == k \in DOMAIN cfgEnv /\ cfgEnv[k] \in {Bool(TRUE), Num(1)}

ExtPath == Auv3Path(CfgStr("BUNDLE_NAME"))
AppFilePath == AppPath(CfgStr("BUNDLE_NAME"))
ExtFile == fs[ExtPath]
AppFile == fs[AppFilePath]

Has(root, k, v) == k \in DOMAIN root.val /\ root.val[k] = v

Attributes(root) == root.val["NSExtension"].val["NSExtensionAttributes"]
Components(root) == Attributes(root).val["AudioComponents"].val
Entry(root) == Components(root)[1]

ExtOverwrite ==
  {"CFBundleExecutable", "CFBundleIdentifier", "CFBundleName",
   "CFBundleDisplayName", "CFBundleVersion", "CFBundleShortVersionString",
   "CFBundlePackageType", "NSExtension"}

AppOverwrite ==
  {"CFBundleExecutable", "CFBundleIdentifier", "CFBundleName",
   "CFBundleVersion", "CFBundleShortVersionString", "CFBundlePackageType",
   "LSApplicationCategoryType"}

EntryKeys ==
  {"description", "manufacturer", "factoryFunction", "name", "subtype",
   "type", "version", "sandboxSafe", "tags"}

\* C1: after a successful run the extension descriptor holds one audio
\* component whose type is "aumu" for an instrument, else "aumf" for a
\* plug-in that does MIDI, else "aufx".
C1_ComponentTypeTag ==
  Done =>
    /\ Len(Components(ExtFile)) = 1
    /\ Has(Entry(ExtFile), "type",
           Str(IF FlagOn("PLUG_IS_INSTRUMENT") THEN "aumu"
               ELSE IF FlagOn("PLUG_DOES_MIDI") THEN "aumf" ELSE "aufx"))

C1_Witness ==
  /\ Done
  /\ ~FlagOn("PLUG_IS_INSTRUMENT")
  /\ FlagOn("PLUG_DOES_MIDI")
  /\ Has(Entry(ExtFile), "type", Str("aumf"))

\* C2: after a successful run the tags of the audio component are the
\* one-element list ["Synth"] for an instrument and ["Effects"] otherwise;
\* no extension descriptor is ever written with the placeholder [{}].
C2_CapabilityTags ==
  /\ Done =>
       Has(Entry(ExtFile), "tags",
           List(<<Str(IF FlagOn("PLUG_IS_INSTRUMENT")
                      THEN "Synth" ELSE "Effects")>>))
  /\ \A p \in written \cap {Auv3Path(n) : n \in Names} :
       /\ "tags" \in DOMAIN Entry(fs[p]).val
       /\ Entry(fs[p]).val["tags"]
            \in {List(<<Str("Synth")>>), List(<<Str("Effects")>>)}

C2_Witness ==
  /\ Done
  /\ ~FlagOn("PLUG_IS_INSTRUMENT")
  /\ FlagOn("PLUG_DOES_MIDI")
  /\ Has(Entry(ExtFile), "tags", List(<<Str("Effects")>>))

\* C3: after a successful run the extension descriptor contains
\* CFBundleGetInfoString = BUNDLE_NAME + " v" + FULL_VER_STR + " " +
\* PLUG_COPYRIGHT.
C3_InfoStringWritten ==
  Done =>
    Has(ExtFile, "CFBundleGetInfoString",
        Str(CfgStr("BUNDLE_NAME") \o " v" \o CfgStr("FULL_VER_STR")
              \o " " \o CfgStr("PLUG_COPYRIGHT")))

\* C4: a run that ends in a fault has written neither plist file.
C4_NoPartialSuccess == pc = "faulted" => written = {}

\* a key the run is certain to look up is missing
NeededKeyMissing ==
  \/ ~((ConfigKeys \ {"PLUG_DOES_MIDI"}) \subseteq DOMAIN cfgEnv)
  \/ "DEPLOYMENT_TARGET" \notin DOMAIN xcEnv
  \/ "PLUG_DOES_MIDI" \notin DOMAIN cfgEnv /\ ~FlagOn("PLUG_IS_INSTRUMENT")

\* C5 as claimed: a run completes only when every one of the thirteen keys
\* is present.
C5_AnyMissingKeyFaults ==
  Done =>
    /\ ConfigKeys \subseteq DOMAIN cfgEnv
    /\ "DEPLOYMENT_TARGET" \in DOMAIN xcEnv

\* C5 as amended: when a key other than PLUG_DOES_MIDI is missing, or
\* PLUG_DOES_MIDI is missing and PLUG_IS_INSTRUMENT is not set, the run
\* never completes and writes no file.
C5_NeededKeyMissingFaults ==
  NeededKeyMissing => pc # "done" /\ written = {}

C5_Witness ==
  /\ pc = "faulted"
  /\ DOMAIN cfgEnv = ConfigKeys \ {"PLUG_DOES_MIDI"}
  /\ ~FlagOn("PLUG_IS_INSTRUMENT")
  /\ "DEPLOYMENT_TARGET" \in DOMAIN xcEnv
  /\ {ExtPath, AppFilePath} \subseteq DOMAIN fs

\* C6: after a successful run the extension's CFBundleIdentifier is
\* BUNDLE_DOMAIN.BUNDLE_MFR.app.BUNDLE_NAME.AUv3 and the application's is
\* BUNDLE_DOMAIN.BUNDLE_MFR.app.BUNDLE_NAME, so the former is the latter
\* followed by ".AUv3".
C6_BundleIdentifiers ==
  Done =>
    /\ Has(ExtFile, "CFBundleIdentifier",
           Str(CfgStr("BUNDLE_DOMAIN") \o "." \o CfgStr("BUNDLE_MFR")
                 \o ".app." \o CfgStr("BUNDLE_NAME") \o ".AUv3"))
    /\ Has(AppFile, "CFBundleIdentifier",
           Str(CfgStr("BUNDLE_DOMAIN") \o "." \o CfgStr("BUNDLE_MFR")
                 \o ".app." \o CfgStr("BUNDLE_NAME")))
    /\ ExtFile.val["CFBundleIdentifier"].val
         = AppFile.val["CFBundleIdentifier"].val \o ".AUv3"

C6_Witness ==
  /\ Done
  /\ Has(fs0[ExtPath], "CFBundleIdentifier", Str("org.old.app.Old.AUv3"))
  /\ Has(ExtFile, "CFBundleIdentifier", Str("com.AcmeInc.app.Foo.AUv3"))
  /\ Has(AppFile, "CFBundleIdentifier", Str("com.AcmeInc.app.Foo"))

\* C7: after a successful run CFBundleVersion and CFBundleShortVersionString
\* of both descriptors equal FULL_VER_STR, whatever they held before.
C7_VersionFields ==
  Done =>
    \A root \in {ExtFile, AppFile} :
      /\ Has(root, "CFBundleVersion", cfgEnv["FULL_VER_STR"])
      /\ Has(root, "CFBundleShortVersionString", cfgEnv["FULL_VER_STR"])

C7_Witness ==
  /\ Done
  /\ Has(fs0[ExtPath], "CFBundleVersion", Str("0.0.1"))
  /\ "CFBundleShortVersionString" \notin DOMAIN fs0[AppFilePath].val
  /\ Has(ExtFile, "CFBundleVersion", Str("2.0.0"))
  /\ Has(AppFile, "CFBundleShortVersionString", Str("2.0.0"))

Scalar(v) == v.kind \in {"string", "bool", "int"}
ListOf(v, kind) ==
  v.kind = "list" /\ \A i \in DOMAIN v.val : v.val[i].kind = kind

IsAuv3Path(p) == p \in {Auv3Path(n) : n \in Names}

\* the values the script stored in the file at p: the overwritten top-level
\* fields and, in the extension descriptor, the fields of the component
WrittenValues(p) ==
  IF IsAuv3Path(p)
  THEN {fs[p].val[k] : k \in ExtOverwrite}
         \cup {Entry(fs[p]).val[k] : k \in DOMAIN Entry(fs[p]).val}
  ELSE {fs[p].val[k] : k \in AppOverwrite}

\* C8 as claimed: every field written to a persisted file is a string, a
\* boolean, an integer or a list of mappings.
C8_OnlyScalarsAndListsOfMappings ==
  \A p \in written :
    \A v \in WrittenValues(p) : Scalar(v) \/ ListOf(v, "dict")

\* C8 as amended: in every persisted file the written fields are strings,
\* booleans or integers, except NSExtension and its NSExtensionAttributes
\* (mappings), AudioComponents (a list of mappings) and tags (a list of
\* strings).
C8_WrittenFieldKinds ==
  \A p \in written :
    IF IsAuv3Path(p)
    THEN /\ \A k \in ExtOverwrite \ {"NSExtension"} : Scalar(fs[p].val[k])
         /\ fs[p].val["NSExtension"].kind = "dict"
         /\ \A k \in DOMAIN fs[p].val["NSExtension"].val
                       \ {"NSExtensionAttributes"} :
              Scalar(fs[p].val["NSExtension"].val[k])
         /\ Attributes(fs[p]).kind = "dict"
         /\ DOMAIN Attributes(fs[p]).val = {"AudioComponents"}
         /\ ListOf(Attributes(fs[p]).val["AudioComponents"], "dict")
         /\ \A k \in DOMAIN Entry(fs[p]).val \ {"tags"} :
              Scalar(Entry(fs[p]).val[k])
         /\ ListOf(Entry(fs[p]).val["tags"], "string")
    ELSE \A k \in AppOverwrite : Scalar(fs[p].val[k])

C8_Witness ==
  /\ Done
  /\ written = {ExtPath, AppFilePath}
  /\ ExtFile.val["NSExtension"].kind = "dict"
  /\ Has(Entry(ExtFile), "version", Num(65536))
  /\ Has(Entry(ExtFile), "tags", List(<<Str("Synth")>>))

\* the top-level keys outside S are the same, with the same values
SameOutside(old, new, S) ==
  /\ DOMAIN new.val \ S = DOMAIN old.val \ S
  /\ \A k \in DOMAIN old.val \ S : new.val[k] = old.val[k]

\* C9: a successful run leaves every top-level key outside the overwrite
\* set of each descriptor as it was, and every other file untouched;
\* NSExtension is replaced as a whole, keeping nothing stored under it
\* before, and its AudioComponents list has exactly one entry.
C9_Frame ==
  Done =>
    /\ DOMAIN fs = DOMAIN fs0
    /\ \A p \in DOMAIN fs0 \ {ExtPath, AppFilePath} : fs[p] = fs0[p]
    /\ SameOutside(fs0[ExtPath], ExtFile, ExtOverwrite)
    /\ SameOutside(fs0[AppFilePath], AppFile, AppOverwrite)
    /\ ExtOverwrite \subseteq DOMAIN ExtFile.val
    /\ AppOverwrite \subseteq DOMAIN AppFile.val
    /\ DOMAIN ExtFile.val["NSExtension"].val
         = {"NSExtensionAttributes", "NSExtensionMainStoryboard",
            "NSExtensionPointIdentifier"}
    /\ DOMAIN Attributes(ExtFile).val = {"AudioComponents"}
    /\ Len(Components(ExtFile)) = 1
    /\ DOMAIN Entry(ExtFile).val = EntryKeys

C9_Witness ==
  /\ Done
  /\ fs0[ExtPath] = Auv3Stale
  /\ fs0[AppFilePath] = AppStale
  /\ Has(ExtFile, "CFBundleGetInfoString", Str("Old v0.0.1 (c)1999"))
  /\ Has(AppFile, "LSRequiresIPhoneOS", Bool(TRUE))
  /\ "NSExtensionPrincipalClass" \notin DOMAIN ExtFile.val["NSExtension"].val
  /\ Len(Components(ExtFile)) = 1

\* C10: every successful run after the first successful one, whether it
\* starts from the files that run left or from the original templates and
\* whatever DEPLOYMENT_TARGET it reads, leaves the files exactly as the
\* first one did.
C10_IdempotentAndTargetIndependent ==
  (Done /\ firstDone.kind = "snapshot") => fs = firstDone.val

C10_Witness ==
  /\ Done
  /\ runs >= 2
  /\ firstDone.kind = "snapshot"
  /\ firstDone.xc # xcEnv
  /\ fs0 = firstDone.val
  /\ fs = firstDone.val

====
